---- MODULE Spec2Model ----
(***************************************************************************)
(* Model of the nutrition calculator (src/src/recipe.rs, src/src/main.rs): *)
(* the recursive resolution of a recipe document into per-100g nutrition   *)
(* facts, with the f64 arithmetic of the accumulation and normalisation.   *)
(***************************************************************************)
EXTENDS Integers, Sequences, FiniteSets, TLC

(***************************************************************************)
(* f64 arithmetic.  A value is NaN, +Infinity, or a finite non-negative    *)
(* binary floating-point number m * 2^e whose significand m has at most    *)
(* Precision bits; every operation returns the exact result rounded to the *)
(* nearest such number, ties to even, as IEEE 754 does.  f64 has a 53-bit  *)
(* significand; the model keeps the rounding rule and narrows the          *)
(* significand.  The documents drawn below hold no negative number and no  *)
(* number near the exponent limits of f64, so the sign and the exponent    *)
(* range are left out.                                                     *)
(***************************************************************************)
Precision == 8

RECURSIVE Pow2(_)
Pow2(k) == IF k = 0 THEN 1 ELSE 2 * Pow2(k - 1)

Fin(m, e) == [k |-> "fin", m |-> m, e |-> e]
Zero == Fin(0, 0)
Inf == [k |-> "inf", m |-> 0, e |-> 0]
NaN == [k |-> "nan", m |-> 0, e |-> 0]

IsFinite(x) == x.k = "fin"
IsZero(x) == x.k = "fin" /\ x.m = 0

\* The float nearest to (n / d) * 2^e, for n >= 0 and d > 0: the quotient is
\* scaled into [2^(Precision-1), 2^Precision) and rounded half to even.
RECURSIVE Round(_, _, _)
Round(n, d, e) ==
  IF n = 0 THEN Zero
  ELSE IF n < Pow2(Precision - 1) * d THEN Round(2 * n, d, e - 1)
  ELSE IF n >= Pow2(Precision) * d THEN Round(n, 2 * d, e + 1)
  ELSE LET q == n \div d
           r == n % d
           up == 2 * r > d \/ (2 * r = d /\ q % 2 = 1)
           m == IF up THEN q + 1 ELSE q
       IN IF m = Pow2(Precision) THEN Fin(Pow2(Precision - 1), e + 1) ELSE Fin(m, e)

\* A decimal literal of a document, or a literal of the code (100.0, 0.0).
Lit(n) == Round(n, 1, 0)

\* f64 addition (recipe.rs:100, recipe.rs:113).
FAdd(x, y) ==
  IF x.k = "nan" \/ y.k = "nan" THEN NaN
  ELSE IF x.k = "inf" \/ y.k = "inf" THEN Inf
  ELSE IF x.m = 0 THEN y
  ELSE IF y.m = 0 THEN x
  ELSE LET hi == IF x.e >= y.e THEN x ELSE y
           lo == IF x.e >= y.e THEN y ELSE x
           sh == hi.e - lo.e
       IN IF sh > Precision THEN hi
          ELSE Round(hi.m * Pow2(sh) + lo.m, 1, lo.e)

\* f64 multiplication (recipe.rs:102, recipe.rs:143).
FMul(x, y) ==
  IF x.k = "nan" \/ y.k = "nan" THEN NaN
  ELSE IF x.k = "inf" \/ y.k = "inf"
    THEN (IF IsZero(x) \/ IsZero(y) THEN NaN ELSE Inf)
  ELSE Round(x.m * y.m, 1, x.e + y.e)

\* f64 division (recipe.rs:102, recipe.rs:137, recipe.rs:138).
FDiv(x, y) ==
  IF x.k = "nan" \/ y.k = "nan" THEN NaN
  ELSE IF x.k = "inf" THEN (IF y.k = "inf" THEN NaN ELSE Inf)
  ELSE IF y.k = "inf" THEN Zero
  ELSE IF y.m = 0 THEN (IF x.m = 0 THEN NaN ELSE Inf)
  ELSE Round(x.m, y.m, x.e - y.e)

(***************************************************************************)
(* Documents (recipe.rs:13-82).                                            *)
(***************************************************************************)
\* enum Nutrition
Nutrition == {"Energy", "Proteins", "Fats", "Carbohydrates"}

\* NutritionData::Facts(NutritionFacts): a map from some nutrients to f64.
Facts(f) == [kind |-> "facts", facts |-> f, path |-> ""]
\* NutritionData::Recipe(PathBuf)
RecipeRef(p) == [kind |-> "recipe", facts |-> <<>>, path |-> p]

Product(name, data) == [name |-> name, data |-> data]
Ingredient(product, amount) == [product |-> product, amount |-> Lit(amount)]
\* Option<f64>
None == [some |-> FALSE, v |-> Zero]
Some(n) == [some |-> TRUE, v |-> Lit(n)]
Dish(ingredients, weight) == [ingredients |-> ingredients, weight |-> weight]
Recipe(products, dish) == [products |-> products, dish |-> dish]

\* Result<Recipe, Box<dyn Error>> of Recipe::read_from_file.
Loaded(r) == [ok |-> TRUE, recipe |-> r]
LoadError == [ok |-> FALSE, recipe |-> Recipe(<<>>, Dish(<<>>, None))]

(***************************************************************************)
(* The steps of Recipe::get_nutrition_facts (recipe.rs:94-146).            *)
(***************************************************************************)
\* self.products.iter().find(|p| p.name == ingredient.product): the index of
\* the first product of that name, 0 for None.
FindProduct(recipe, name) ==
  LET hits == {j \in 1..Len(recipe.products) : recipe.products[j].name = name}
  IN IF hits = {} THEN 0 ELSE CHOOSE j \in hits : \A h \in hits : j <= h

\* Variant: the names in reverse order of declaration.
ProductNamesReversed(recipe) ==
  [j \in 1..Len(recipe.products) |->
     recipe.products[Len(recipe.products) + 1 - j].name]

\* self.products.iter().map(|p| p.name.clone()).collect::<Vec<_>>(), the list
\* the panic message joins with ", ".
ProductNames(recipe) ==
  [j \in 1..Len(recipe.products) |-> recipe.products[j].name]

\* Variant: and_modify overwrites the entry instead of adding to it.
AccumulateOverwriting(totals, facts, amount) ==
  [n \in DOMAIN totals \cup DOMAIN facts |->
     IF n \in DOMAIN facts THEN FMul(FDiv(facts[n], Lit(100)), amount)
                           ELSE totals[n]]

\* Variant: the facts are taken per gram, not per 100g.
AccumulatePerGram(totals, facts, amount) ==
  [n \in DOMAIN totals \cup DOMAIN facts |->
     IF n \in DOMAIN facts
       THEN IF n \in DOMAIN totals THEN FAdd(totals[n], FMul(facts[n], amount))
                                   ELSE FMul(facts[n], amount)
       ELSE totals[n]]

\* The inner loop over one ingredient's facts: this_amount = amount / 100.0 *
\* ingredient.amount, added to the nutrient's entry or inserted as a new one.
Accumulate(totals, facts, amount) ==
  [n \in DOMAIN totals \cup DOMAIN facts |->
     IF n \in DOMAIN facts
       THEN LET this_amount == FMul(FDiv(facts[n], Lit(100)), amount)
            IN IF n \in DOMAIN totals THEN FAdd(totals[n], this_amount)
                                      ELSE this_amount
       ELSE totals[n]]

\* Variant: the dish weight is ignored.
WeightToHundredOfIngredients(dish, total_ingredients_weight) ==
  FDiv(Lit(100), total_ingredients_weight)

\* weight_to_hundred: 100.0 / dish_weight when the dish has a weight, else
\* 100.0 / total_ingredients_weight.
WeightToHundred(dish, total_ingredients_weight) ==
  IF dish.weight.some THEN FDiv(Lit(100), dish.weight.v)
                      ELSE FDiv(Lit(100), total_ingredients_weight)

\* Variant: entries whose total is zero are left out of the result.
NormalizeNonZero(totals, dish, total_ingredients_weight) ==
  [n \in {k \in DOMAIN totals : ~IsZero(totals[k])} |->
     FMul(totals[n], FDiv(Lit(100), IF dish.weight.some THEN dish.weight.v
                                    ELSE total_ingredients_weight))]

\* The returned map: every total multiplied by weight_to_hundred.
Normalize(totals, dish, total_ingredients_weight) ==
  [n \in DOMAIN totals |->
     FMul(totals[n], WeightToHundred(dish, total_ingredients_weight))]

(***************************************************************************)
(* The documents the runs are drawn from.  RootPath is the --recipe-file   *)
(* of the command line; the other two paths are what products refer to.    *)
(***************************************************************************)
RootPath == "a.yaml"
Paths == {"a.yaml", "b.yaml", "c.yaml"}

Oil == "Energy" :> Lit(1000)
Milk == ("Energy" :> Lit(200)) @@ ("Proteins" :> Lit(7))
Broth == ("Energy" :> Lit(7)) @@ ("Fats" :> Lit(3))

RootPantries ==
  { <<Product("Oil", Facts(Oil)), Product("Milk", Facts(Milk))>>,
    <<Product("Oil", Facts(Broth)), Product("Milk", Facts(Milk))>>,
    <<Product("Oil", Facts(Oil)), Product("Oil", Facts(Milk))>>,
    <<Product("Oil", RecipeRef("b.yaml")), Product("Milk", Facts(Milk))>> }
RootIngredients ==
  { <<>>,
    <<Ingredient("Oil", 10)>>,
    <<Ingredient("Oil", 50)>>,
    <<Ingredient("Oil", 0)>>,
    <<Ingredient("cabbage", 10)>>,
    <<Ingredient("Milk", 20), Ingredient("Oil", 10)>>,
    <<Ingredient("Oil", 1), Ingredient("Oil", 2), Ingredient("Oil", 10)>>,
    <<Ingredient("Milk", 20), Ingredient("cabbage", 10), Ingredient("bean", 5)>> }
RootWeights == {None, Some(0), Some(20), Some(50)}

InnerPantries ==
  { <<Product("Milk", Facts(Milk))>>,
    <<Product("Oil", RecipeRef("a.yaml")), Product("Milk", Facts(Milk))>>,
    <<Product("Oil", RecipeRef("c.yaml")), Product("Milk", Facts(Milk))>> }
InnerIngredients ==
  { <<>>,
    <<Ingredient("Milk", 10)>>,
    <<Ingredient("Oil", 3)>> }
InnerWeights == {None, Some(3)}

LeafPantries ==
  { <<Product("Oil", Facts(Broth))>>,
    <<Product("Oil", RecipeRef("b.yaml"))>> }
LeafIngredients == { <<Ingredient("Oil", 10)>> }
LeafWeights == {None}

Documents(pantries, ingredients, weights) ==
  { Loaded(Recipe(ps, Dish(is, w))) :
      ps \in pantries, is \in ingredients, w \in weights } \cup {LoadError}

\* The file system: what Recipe::read_from_file(path) returns (recipe.rs:85-92).
FileSystems ==
  { [p \in Paths |-> IF p = RootPath THEN a ELSE IF p = "b.yaml" THEN b ELSE c] :
      a \in Documents(RootPantries, RootIngredients, RootWeights),
      b \in Documents(InnerPantries, InnerIngredients, InnerWeights),
      c \in Documents(LeafPantries, LeafIngredients, LeafWeights) }

\* The orders in which a list of n ingredients can be written.
Orders(n) ==
  {p \in [1..n -> 1..n] : \A i, j \in 1..n : p[i] = p[j] => i = j}
Identity(n) == [j \in 1..n |-> j]
Permuted(s, p) == [j \in 1..Len(s) |-> s[p[j]]]

\* The depth of nested calls at which the stack of the process is exhausted.
StackLimit == 4

(***************************************************************************)
(* State.                                                                  *)
(***************************************************************************)
VARIABLES
  files,    \* path -> the result of reading the document at that path
  stack,    \* the active calls of Recipe::get_nutrition_facts, outermost first
  err,      \* the Err a call is returning through the ? operators
  outcome,  \* how the run of cli() ended
  log,      \* the Ok results returned so far in this run, in order of return
  prev,     \* the outcome of the previous run
  order     \* the order of the root dish's ingredients relative to the previous run

vars == <<files, stack, err, outcome, log, prev, order>>

NoFacts == <<>>
Outcome(kind, facts, path, missing, known) ==
  [kind |-> kind, facts |-> facts, path |-> path, missing |-> missing, known |-> known]
Idle == Outcome("idle", NoFacts, "", "", <<>>)
Running == Outcome("running", NoFacts, "", "", <<>>)
\* Ok(NutritionFacts)
Ok(facts) == Outcome("ok", facts, "", "", <<>>)
\* Err(e) for the error of reading the document at path
Err(path) == Outcome("err", NoFacts, path, "", <<>>)
\* panic!("Cannot find ingredient in recipe: {} possible products: {}", ..)
Panic(missing, known) == Outcome("panic", NoFacts, "", missing, known)
\* the process is killed when the nested calls exhaust its stack
Overflow == Outcome("overflow", NoFacts, "", "", <<>>)

NoErr == [some |-> FALSE, path |-> "", depth |-> 0]

\* A call of Recipe::get_nutrition_facts: its recipe, the index of the
\* ingredient the loop is at, and its two locals.
Frame(path, recipe) ==
  [path |-> path, recipe |-> recipe, i |-> 1,
   totals_for_dish |-> NoFacts, total_ingredients_weight |-> Lit(0)]

Top == stack[Len(stack)]
AtIngredient == /\ outcome.kind = "running" /\ ~err.some /\ stack # <<>>
                /\ Top.i <= Len(Top.recipe.dish.ingredients)
CurIngredient == Top.recipe.dish.ingredients[Top.i]
CurProduct == Top.recipe.products[FindProduct(Top.recipe, CurIngredient.product)]
Found == FindProduct(Top.recipe, CurIngredient.product) # 0

Init ==
  /\ files \in FileSystems
  /\ stack = <<>>
  /\ err = NoErr
  /\ outcome = Idle
  /\ log = <<>>
  /\ prev = Idle
  /\ order = <<>>

\* cli(): read the root document and resolve it (main.rs:13-25).
Cli ==
  /\ outcome.kind = "idle"
  /\ IF files[RootPath].ok
       THEN /\ stack' = <<Frame(RootPath, files[RootPath].recipe)>>
            /\ outcome' = Running
       ELSE /\ stack' = stack
            /\ outcome' = Err(RootPath)
  /\ UNCHANGED <<files, err, log, prev, order>>

\* One turn of the loop for an ingredient whose product carries its facts
\* (recipe.rs:99-115 with Product::get_nutrition_facts at recipe.rs:60).
AddFacts ==
  /\ AtIngredient /\ Found /\ CurProduct.data.kind = "facts"
  /\ stack' = [stack EXCEPT ![Len(stack)] =
       [@ EXCEPT
          !.total_ingredients_weight = FAdd(@, CurIngredient.amount),
          !.totals_for_dish = Accumulate(@, CurProduct.data.facts, CurIngredient.amount),
          !.i = @ + 1]]
  /\ UNCHANGED <<files, err, outcome, log, prev, order>>

\* The else branch of the lookup: panic! (recipe.rs:116-126).
NotFound ==
  /\ AtIngredient /\ ~Found
  /\ outcome' = Panic(CurIngredient.product, ProductNames(Top.recipe))
  /\ UNCHANGED <<files, stack, err, log, prev, order>>

\* An ingredient whose product is a recipe: Product::get_nutrition_facts reads
\* the document and calls Recipe::get_nutrition_facts on it (recipe.rs:61-63);
\* the caller has added the amount to its weight already (recipe.rs:100).
Recurse ==
  /\ AtIngredient /\ Found /\ CurProduct.data.kind = "recipe"
  /\ files[CurProduct.data.path].ok
  /\ Len(stack) < StackLimit
  /\ stack' = Append(
       [stack EXCEPT ![Len(stack)].total_ingredients_weight =
          FAdd(@, CurIngredient.amount)],
       Frame(CurProduct.data.path, files[CurProduct.data.path].recipe))
  /\ UNCHANGED <<files, err, outcome, log, prev, order>>

\* The same call when the nested calls have used up the stack: nothing in
\* recipe.rs:57-67 or recipe.rs:94-101 stops the descent.
StackOverflow ==
  /\ AtIngredient /\ Found /\ CurProduct.data.kind = "recipe"
  /\ files[CurProduct.data.path].ok
  /\ Len(stack) >= StackLimit
  /\ outcome' = Overflow
  /\ UNCHANGED <<files, stack, err, log, prev, order>>

\* Recipe::read_from_file fails and the ? of recipe.rs:62 returns its error.
LoadFail ==
  /\ AtIngredient /\ Found /\ CurProduct.data.kind = "recipe"
  /\ ~files[CurProduct.data.path].ok
  /\ err' = [some |-> TRUE, path |-> CurProduct.data.path, depth |-> Len(stack)]
  /\ stack' = [stack EXCEPT ![Len(stack)].total_ingredients_weight =
       FAdd(@, CurIngredient.amount)]
  /\ UNCHANGED <<files, outcome, log, prev, order>>

\* Variant: the caller takes the failed product to have no facts and goes on
\* to its next ingredient.
PropagateErrSwallowed ==
  /\ outcome.kind = "running" /\ err.some /\ stack # <<>>
  /\ err' = NoErr
  /\ stack' = [stack EXCEPT ![Len(stack)].i = @ + 1]
  /\ UNCHANGED <<files, outcome, log, prev, order>>

\* The ? of recipe.rs:101 (and of main.rs:21 for the outermost call): the call
\* returns the Err it received.
PropagateErr ==
  /\ outcome.kind = "running" /\ err.some /\ stack # <<>>
  /\ stack' = SubSeq(stack, 1, Len(stack) - 1)
  /\ outcome' = IF Len(stack) = 1 THEN Err(err.path) ELSE outcome
  /\ UNCHANGED <<files, err, log, prev, order>>

\* The loop is over: normalise and return Ok (recipe.rs:134-145); the caller,
\* if there is one, runs its inner loop over the returned facts
\* (recipe.rs:101-115) and moves to its next ingredient.
Return ==
  /\ outcome.kind = "running" /\ ~err.some /\ stack # <<>>
  /\ Top.i > Len(Top.recipe.dish.ingredients)
  /\ LET facts == Normalize(Top.totals_for_dish, Top.recipe.dish,
                            Top.total_ingredients_weight)
         d == Len(stack)
     IN /\ log' = Append(log, [depth |-> d, recipe |-> Top.recipe, facts |-> facts])
        /\ IF d = 1
             THEN /\ stack' = <<>>
                  /\ outcome' = Ok(facts)
             ELSE /\ stack' = [SubSeq(stack, 1, d - 1) EXCEPT ![d - 1] =
                       [@ EXCEPT
                          !.totals_for_dish =
                             Accumulate(@, facts,
                                        stack[d - 1].recipe.dish.ingredients[stack[d - 1].i].amount),
                          !.i = @ + 1]]
                  /\ outcome' = outcome
  /\ UNCHANGED <<files, err, prev, order>>

\* After the first run the root document is rewritten with the ingredients of
\* its dish in another order (the identity included), and the command is run
\* a second time.
Reorder ==
  /\ outcome.kind \notin {"idle", "running"}
  /\ prev.kind = "idle"
  /\ files[RootPath].ok
  /\ \E p \in Orders(Len(files[RootPath].recipe.dish.ingredients)) :
       /\ files' = [files EXCEPT ![RootPath].recipe.dish.ingredients = Permuted(@, p)]
       /\ order' = p
  /\ prev' = outcome
  /\ outcome' = Idle
  /\ stack' = <<>>
  /\ err' = NoErr
  /\ log' = <<>>

Next ==
  \/ Cli
  \/ AddFacts
  \/ NotFound
  \/ Recurse
  \/ StackOverflow
  \/ LoadFail
  \/ PropagateErr
  \/ Return
  \/ Reorder

Spec == Init /\ [][Next]_vars

(***************************************************************************)
(* Properties.  The quantities they are stated over are computed from the  *)
(* documents alone.                                                        *)
(***************************************************************************)
Ingredients(r) == r.dish.ingredients
Matches(r, name) == {k \in 1..Len(r.products) : r.products[k].name = name}
\* The product an ingredient resolves to.
Resolved(r, ing) == r.products[FindProduct(r, ing.product)]
AllDirect(r) ==
  \A i \in 1..Len(Ingredients(r)) :
     /\ Matches(r, Ingredients(r)[i].product) # {}
     /\ Resolved(r, Ingredients(r)[i]).data.kind = "facts"

RECURSIVE SumAmounts(_)
SumAmounts(ings) ==
  IF ings = <<>> THEN Lit(0)
  ELSE FAdd(SumAmounts(SubSeq(ings, 1, Len(ings) - 1)), ings[Len(ings)].amount)

\* The effective basis weight B of a recipe.
BasisWeight(r) ==
  IF r.dish.weight.some THEN r.dish.weight.v ELSE SumAmounts(Ingredients(r))
Positive(v) == IsFinite(v) /\ v.m > 0

\* facts_i[n] / 100 * amount_i, summed in the order of the list, over a
\* non-empty list of ingredients that all carry nutrient n.
RECURSIVE SumContributions(_, _, _)
SumContributions(r, ings, n) ==
  LET last == ings[Len(ings)]
      c == FMul(FDiv(Resolved(r, last).data.facts[n], Lit(100)), last.amount)
  IN IF Len(ings) = 1 THEN c
     ELSE FAdd(SumContributions(r, SubSeq(ings, 1, Len(ings) - 1), n), c)

DirectKeys(r) ==
  UNION {DOMAIN Resolved(r, Ingredients(r)[i]).data.facts : i \in 1..Len(Ingredients(r))}

ExpectedFacts(r) ==
  [n \in DirectKeys(r) |->
     LET Has(ing) == n \in DOMAIN Resolved(r, ing).data.facts
     IN FMul(SumContributions(r, SelectSeq(Ingredients(r), Has), n),
             FDiv(Lit(100), BasisWeight(r)))]

\* C1: a reference chain that comes back to a document already being resolved
\* is reported as CyclicReference: no document is ever resolved inside its own
\* resolution, and the run never ends by exhausting the stack.
C1_CyclicReferenceReported ==
  /\ \A i, j \in 1..Len(stack) : stack[i].path = stack[j].path => i = j
  /\ outcome.kind # "overflow"

\* C2: when the ingredient a call is at names no product of its recipe, the
\* run ends with an Err value returned to the caller, not with a panic.
C2_ProductNotFoundIsErr ==
  ( /\ stack # <<>>
    /\ outcome.kind # "running"
    /\ Top.i <= Len(Ingredients(Top.recipe))
    /\ Matches(Top.recipe, Ingredients(Top.recipe)[Top.i].product) = {} )
  => outcome.kind = "err"

\* C3: a recipe whose effective basis weight is zero never yields an Ok result.
C3_ZeroBasisFails ==
  \A j \in DOMAIN log : ~IsZero(BasisWeight(log[j].recipe))

\* C4: for a recipe whose ingredients all resolve to declared facts and whose
\* basis weight B is positive, the returned value of each nutrient n is the sum
\* over the ingredients that have n of facts[n] / 100 * amount, times 100 / B,
\* where B is the dish weight when present and the sum of the amounts otherwise.
C4_DirectFormula ==
  \A j \in DOMAIN log :
     (AllDirect(log[j].recipe) /\ Positive(BasisWeight(log[j].recipe)))
       => log[j].facts = ExpectedFacts(log[j].recipe)

\* C4 witness: a returned recipe of two ingredients with declared facts, one of
\* which lacks a nutrient the other has, and an explicit dish weight.
C4_Witness ==
  \E j \in DOMAIN log :
     LET r == log[j].recipe
     IN /\ AllDirect(r) /\ Positive(BasisWeight(r)) /\ r.dish.weight.some
        /\ Len(Ingredients(r)) = 2
        /\ \E n \in DOMAIN log[j].facts : \E i \in 1..2 :
              n \notin DOMAIN Resolved(r, Ingredients(r)[i]).data.facts

\* A returned call whose dish has one ingredient, of a product that refers to
\* another recipe, at amount m, with the explicit dish weight m; the call that
\* returned just before it is the resolution of the referenced document.
SingleReference(j) ==
  LET r == log[j].recipe
  IN /\ Len(Ingredients(r)) = 1
     /\ Matches(r, Ingredients(r)[1].product) # {}
     /\ Resolved(r, Ingredients(r)[1]).data.kind = "recipe"
     /\ r.dish.weight.some
     /\ r.dish.weight.v = Ingredients(r)[1].amount
     /\ Positive(r.dish.weight.v)
     /\ j > 1
     /\ log[j - 1].depth = log[j].depth + 1
     /\ log[j - 1].recipe = files[Resolved(r, Ingredients(r)[1]).data.path].recipe

\* C5 as claimed: such a call returns exactly the facts E the referenced
\* recipe resolved to.
C5_ReferenceYieldsSameFacts ==
  \A j \in DOMAIN log : SingleReference(j) => log[j].facts = log[j - 1].facts

\* C5 as amended: the facts used for the ingredient are the result E of the
\* referenced recipe's own resolution, so the call returns, for each nutrient of
\* E, E / 100 * m * (100 / m) as f64 evaluates it: E itself when these
\* operations are exact, E up to rounding otherwise.
C5_ReferenceYieldsRoundedFacts ==
  \A j \in DOMAIN log :
     SingleReference(j) =>
       LET E == log[j - 1].facts
           m == log[j].recipe.dish.weight.v
       IN log[j].facts =
            [n \in DOMAIN E |-> FMul(FMul(FDiv(E[n], Lit(100)), m), FDiv(Lit(100), m))]

\* C5 witness: a referenced recipe that resolves to Energy = 200, used alone at
\* 50g in a dish of weight 50g, gives Energy = 200.
C5_Witness ==
  \E j \in DOMAIN log :
     /\ SingleReference(j)
     /\ log[j].recipe.dish.weight.v = Lit(50)
     /\ "Energy" \in DOMAIN log[j - 1].facts
     /\ log[j - 1].facts["Energy"] = Lit(200)
     /\ log[j].facts["Energy"] = Lit(200)

\* C6: once the reading of a referenced document has failed, every call on
\* the chain returns that same error in turn, none of them returns facts, and
\* the run ends with that error; and once a nested call has ended the process
\* (a missing product, the stack exhausted), no call of the chain returns
\* anything: all that can follow is another run.
C6_NestedFailurePropagates ==
  /\ [][ (err.some /\ outcome.kind = "running") =>
            /\ err' = err
            /\ log' = log
            /\ Len(stack') = Len(stack) - 1
            /\ outcome' = IF stack' = <<>> THEN Err(err.path) ELSE Running ]_vars
  /\ [][ outcome.kind \in {"panic", "overflow"} =>
            outcome' = Idle /\ stack' = <<>> /\ log' = <<>> ]_vars

\* C6 witness: the run has ended with the error of a document referenced from
\* a nested recipe, after the root had already accumulated an ingredient.
C6_Witness ==
  /\ outcome.kind = "err"
  /\ err.some /\ err.depth >= 2
  /\ outcome.path = err.path
  /\ stack = <<>>
  /\ Len(Ingredients(files[RootPath].recipe)) = 2

\* C7: the failure for a missing product names the first ingredient, in the
\* order of the dish, that matches no product of the enclosing recipe, and lists
\* the names of all its products in the order of their declaration.
C7_NotFoundDiagnostics ==
  outcome.kind = "panic" =>
    LET r == Top.recipe
        missing == {i \in 1..Len(Ingredients(r)) :
                      Matches(r, Ingredients(r)[i].product) = {}}
    IN /\ missing # {}
       /\ \E i \in missing :
            /\ \A h \in missing : i <= h
            /\ outcome.missing = Ingredients(r)[i].product
       /\ Len(outcome.known) = Len(r.products)
       /\ \A k \in 1..Len(r.products) : outcome.known[k] = r.products[k].name

\* C7 witness: two ingredients are missing, cabbage before bean and after one
\* that is found, and the pantry is Oil, Milk: cabbage and "Oil, Milk" are reported.
C7_Witness ==
  /\ outcome.kind = "panic"
  /\ outcome.missing = "cabbage"
  /\ outcome.known = <<"Oil", "Milk">>
  /\ Top.i = 2
  /\ Cardinality({i \in 1..Len(Ingredients(Top.recipe)) :
                    Matches(Top.recipe, Ingredients(Top.recipe)[i].product) = {}}) = 2

\* The nutrients of the resolved facts of a recipe's ingredients: those of the
\* declared facts, and those of the ingredients of the referenced recipes.
RECURSIVE IngredientKeys(_, _)
IngredientKeys(r, fuel) ==
  UNION { LET data == Resolved(r, Ingredients(r)[i]).data
          IN IF data.kind = "facts" THEN DOMAIN data.facts
             ELSE IF fuel = 0 THEN {}
             ELSE IngredientKeys(files[data.path].recipe, fuel - 1)
          : i \in 1..Len(Ingredients(r)) }

\* C8: the nutrients of a returned result are exactly those of the resolved
\* facts of the dish's ingredients.
C8_KeysAreUnion ==
  \A j \in DOMAIN log :
     DOMAIN log[j].facts = IngredientKeys(log[j].recipe, StackLimit)

\* C8 witness: a result through a reference that has some nutrients, one of
\* them from one ingredient only, and lacks others.
C8_Witness ==
  \E j \in DOMAIN log :
     /\ log[j].depth = 1 /\ Len(log) > 1
     /\ Len(Ingredients(log[j].recipe)) = 2
     /\ DOMAIN log[j].facts # {}
     /\ DOMAIN log[j].facts # Nutrition
     /\ \E n \in DOMAIN log[j].facts : \E i \in 1..2 :
          LET data == Resolved(log[j].recipe, Ingredients(log[j].recipe)[i]).data
          IN data.kind = "facts" /\ n \notin DOMAIN data.facts

Completed == outcome.kind \notin {"idle", "running"}

\* C9 as claimed: a recipe that resolved, resolved again with the ingredients
\* of its dish in another order, returns the same facts.
C9_OrderIndependent ==
  (prev.kind = "ok" /\ Completed) =>
     outcome.kind = "ok" /\ outcome.facts = prev.facts

\* C9 as amended: it resolves again, to the same nutrients; the values are the
\* same when the order is unchanged or the dish has at most two ingredients
\* (f64 addition is commutative), and may differ by rounding beyond that.
C9_OrderIndependentUpToRounding ==
  (prev.kind = "ok" /\ Completed) =>
     /\ outcome.kind = "ok"
     /\ DOMAIN outcome.facts = DOMAIN prev.facts
     /\ (Len(order) <= 2 \/ order = Identity(Len(order)))
          => outcome.facts = prev.facts

\* C9 witness: two ingredients that share a nutrient, swapped, the same result.
C9_Witness ==
  /\ prev.kind = "ok" /\ outcome.kind = "ok"
  /\ Len(order) = 2 /\ order # Identity(2)
  /\ Len(log) > 1
  /\ "Energy" \in DOMAIN outcome.facts
  /\ Positive(outcome.facts["Energy"])
  /\ outcome.facts = prev.facts

\* C10: a recipe yields facts only if each ingredient of its dish matches
\* exactly one product of its pantry.
C10_ExactlyOneProduct ==
  \A j \in DOMAIN log :
     \A i \in 1..Len(Ingredients(log[j].recipe)) :
        Cardinality(Matches(log[j].recipe, Ingredients(log[j].recipe)[i].product)) = 1
====
